---- MODULE Spec2Model ----
(***************************************************************************)
(* Version resolution (PubGrub) of the package manager: terms,             *)
(* incompatibilities (src/src/poetry/mixology/incompatibility.py), the     *)
(* partial solution and the solver loop.                                   *)
(***************************************************************************)
EXTENDS Integers, Sequences, FiniteSets, TLC

(***************************************************************************)
(* Bounds of the model.                                                    *)
(***************************************************************************)
\* versions of a package are 1..MaxVersion, a larger number is a newer version
MaxVersion == 2
\* longest term list handed to the Incompatibility constructor
MaxLen == 3

Versions == 1..MaxVersion
\* a version range in canonical form: the set of the versions it allows
Ranges == SUBSET Versions
NonEmptyRanges == Ranges \ {{}}
AnyRange == Versions

RootName == "root"
\* the version of the root package
RootVersion == {1}
Packages == {"a", "b"}
AllPackages == {RootName} \cup Packages

(***************************************************************************)
(* Term: a signed predicate "package is (not) in range".                   *)
(***************************************************************************)
Term(p, positive, r) == [pkg |-> p, pos |-> positive, rng |-> r]

\* F(v), with v evaluated once
Strict(F(_), v) == CHOOSE y \in {F(x) : x \in {v}} : TRUE

\* Python's None, as the result of Term.intersect
None == [pkg |-> "None", pos |-> FALSE, rng |-> {}]

is_positive(t) == t.pos

is_root(t) == t.pkg = RootName

inverse(t) == Term(t.pkg, ~t.pos, t.rng)

_non_empty_term(p, r, positive) ==
    IF r = {} THEN None ELSE Term(p, positive, r)

\* foo ^1 /\ not foo ^1.5 -> foo >=1 <1.5 ; two positives intersect their
\* ranges ; two negatives unite them
intersect(t, o) ==
    IF t.pos # o.pos
    THEN LET positive == IF t.pos THEN t ELSE o
             negative == IF t.pos THEN o ELSE t
         IN  _non_empty_term(t.pkg, positive.rng \ negative.rng, TRUE)
    ELSE IF t.pos
    THEN _non_empty_term(t.pkg, t.rng \cap o.rng, TRUE)
    ELSE _non_empty_term(t.pkg, t.rng \cup o.rng, FALSE)

difference(t, o) == intersect(t, inverse(o))

\* self => other
satisfies(t, o) == t.pkg = o.pkg /\ intersect(t, o) = t

\* self /\ other is unsatisfiable
contradicts(t, o) == t.pkg = o.pkg /\ intersect(t, o) = None

(***************************************************************************)
(* Incompatibility causes and the constructor.                             *)
(***************************************************************************)
ConflictCause == "Conflict"
DependencyCause == "Dependency"
RootCause == "Root"
NoVersionsCause == "NoVersions"
PackageNotFoundCause == "PackageNotFound"
PythonCause == "Python"
PlatformCause == "Platform"
Causes == {RootCause, DependencyCause, NoVersionsCause, PackageNotFoundCause,
           PythonCause, PlatformCause, ConflictCause}

\* StripRoot without the test of the cause
StripRootAnyCause(terms, cause) ==
    IF /\ Len(terms) # 1
       /\ \E i \in 1..Len(terms) : is_positive(terms[i]) /\ is_root(terms[i])
    THEN LET Keep(t) == ~is_positive(t) \/ ~is_root(t) IN SelectSeq(terms, Keep)
    ELSE terms

\* lines 28-37: the positive root terms leave a multi-term conflict cause
StripRoot(terms, cause) ==
    IF /\ Len(terms) # 1
       /\ cause = ConflictCause
       /\ \E i \in 1..Len(terms) : is_positive(terms[i]) /\ is_root(terms[i])
    THEN LET Keep(t) == ~is_positive(t) \/ ~is_root(t) IN SelectSeq(terms, Keep)
    ELSE terms

\* Coalesce without the assertion: an empty intersection leaves the entry
RECURSIVE CoalesceNoAssert(_, _, _)
CoalesceNoAssert(terms, i, by_name) ==
    IF i > Len(terms) THEN [failed |-> FALSE, by_name |-> by_name]
    ELSE LET term == terms[i]
             at == {k \in 1..Len(by_name) : by_name[k].pkg = term.pkg}
         IN  IF at = {}
             THEN CoalesceNoAssert(terms, i + 1, Append(by_name, term))
             ELSE LET k == CHOOSE k \in at : TRUE
                      met == intersect(by_name[k], term)
                  IN  IF met = None
                      THEN CoalesceNoAssert(terms, i + 1, by_name)
                      ELSE CoalesceNoAssert(terms, i + 1,
                                            [by_name EXCEPT ![k] = met])

\* lines 49-67: by_name after the terms from i on were read; failed is the
\* assertion of line 65
RECURSIVE Coalesce(_, _, _)
Coalesce(terms, i, by_name) ==
    IF i > Len(terms) THEN [failed |-> FALSE, by_name |-> by_name]
    ELSE LET term == terms[i]
             at == {k \in 1..Len(by_name) : by_name[k].pkg = term.pkg}
         IN  IF at = {}
             THEN Coalesce(terms, i + 1, Append(by_name, term))
             ELSE LET k == CHOOSE k \in at : TRUE
                      met == intersect(by_name[k], term)
                  IN  IF met = None
                      THEN [failed |-> TRUE, by_name |-> by_name]
                      ELSE Coalesce(terms, i + 1, [by_name EXCEPT ![k] = met])

\* the constructor with the short-circuit taken for every list of two terms
IncompatibilityNoNameCheck(terms, cause) ==
    LET stripped == StripRoot(terms, cause)
    IN  IF Len(stripped) = 1 \/ Len(stripped) = 2
        THEN [ok |-> TRUE, terms |-> stripped, cause |-> cause]
        ELSE LET c == Coalesce(stripped, 1, <<>>)
             IN  IF c.failed
                 THEN [ok |-> FALSE, terms |-> <<>>, cause |-> cause]
                 ELSE [ok |-> TRUE, terms |-> c.by_name, cause |-> cause]

\* Incompatibility.__init__: ok is FALSE when the assertion fails and no
\* object is made
Incompatibility(terms, cause) ==
    LET stripped == StripRoot(terms, cause)
    IN  IF \/ Len(stripped) = 1
           \/ /\ Len(stripped) = 2
              /\ stripped[1].pkg # stripped[Len(stripped)].pkg
        THEN [ok |-> TRUE, terms |-> stripped, cause |-> cause]
        ELSE LET c == Coalesce(stripped, 1, <<>>)
             IN  IF c.failed
                 THEN [ok |-> FALSE, terms |-> <<>>, cause |-> cause]
                 ELSE [ok |-> TRUE, terms |-> c.by_name, cause |-> cause]

\* is_failure without the test of the root package
is_failure_single_term(inc) == Len(inc.terms) <= 1

\* is_failure with a test of the sign of the root term
is_failure_negative_root(inc) ==
    \/ Len(inc.terms) = 0
    \/ Len(inc.terms) = 1 /\ is_root(inc.terms[1]) /\ ~is_positive(inc.terms[1])

is_failure(inc) ==
    \/ Len(inc.terms) = 0
    \/ Len(inc.terms) = 1 /\ is_root(inc.terms[1])

(***************************************************************************)
(* State.                                                                  *)
(***************************************************************************)
VARIABLES
    args,         \* the term list a caller assembles for the constructor
    built,        \* what Incompatibility(args, cause) made, NotBuilt before
    provider,     \* the Provider's answers: versions and dependencies
    incs,         \* every incompatibility constructed, with its parents
    added,        \* the solver's incompatibilities, in insertion order
    assignments,  \* the partial solution's log
    changed,      \* FIFO of the packages to propagate
    pc,           \* the step of the solver loop
    conflict,     \* the incompatibility under conflict resolution
    bt,           \* the last backtrack: its level and the log before it
    events,       \* the decisions, conflicts and backjumps of the solve so far
    calls,        \* the number of calls the solver made to the Provider
    pair,         \* the two incompatibilities and lines given to and_to_string
    text,         \* what and_to_string returned or raised for pair
    remote,       \* the pages the legacy repository's server has
    matches,      \* the repository's cache store "matches"
    history,      \* the calls made to the repository and the expiries
    content,      \* config.toml: the repositories and the settings
    auth,         \* auth.toml: the http-basic section
    cmd,          \* the last config command and how it ended
    removed,      \* the repositories unset and not added again since
    check_result, \* what poetry.check gave the check command
    printed,      \* the lines the check command wrote
    returned      \* what the check command returned, "" before it ran

incVars == <<args, built>>
solverVars == <<provider, incs, added, assignments, changed, pc, conflict, bt,
                events, calls>>
strVars == <<pair, text>>
repoVars == <<remote, matches, history>>
cfgVars == <<content, auth, cmd, removed>>
chkVars == <<check_result, printed, returned>>
\* the state outside the solver and the constructor
otherVars == <<strVars, repoVars, cfgVars, chkVars>>
vars == <<args, built, provider, incs, added, assignments, changed, pc,
          conflict, bt, events, calls, pair, text, remote, matches, history,
          content, auth, cmd, removed, check_result, printed, returned>>

(***************************************************************************)
(* Provider: versions_for and dependencies_of.                             *)
(***************************************************************************)
Dependency(p, r) == [pkg |-> p, rng |-> r]

\* a package version depends on at most one range of the other package
DependencyChoices(p) ==
    {{}} \cup {{Dependency(q, r)} : q \in Packages \ {p}, r \in NonEmptyRanges}

\* what the Provider does when it is asked about a package
NoFault == "none"
NotFound == "PackageNotFound"
VersionsError == "versions_for raises"
DependenciesError == "dependencies_of raises"

PackageChoices(p) ==
    {[versions |-> vs, deps |-> ds, fault |-> NoFault] :
        vs \in SUBSET Versions, ds \in [Versions -> DependencyChoices(p)]}

\* the provider knows no dependencies of a version it does not offer
Published(p) ==
    {c \in PackageChoices(p) : \A v \in Versions \ c.versions : c.deps[v] = {}}

RootChoices ==
    {[versions |-> RootVersion,
      deps |-> [v \in Versions |->
                   IF v \in RootVersion
                   THEN {Dependency(q, f[q]) : q \in {x \in Packages : f[x] # {}}}
                   ELSE {}],
      fault |-> NoFault] :
        f \in [Packages -> Ranges]}

\* versions_for without the filter
versions_for_unfiltered(p, r) == provider[p].versions

\* versions_for(pkg, range): the offered versions within the range
versions_for(p, r) == provider[p].versions \cap r

dependencies_of(p, v) == provider[p].deps[v]

\* newest first
Newest(vs) == CHOOSE v \in vs : \A w \in vs : w <= v

\* the stable order of the package names
NameRank(p) == IF p = "a" THEN 1 ELSE IF p = "b" THEN 2 ELSE 3

RECURSIVE SortedByName(_)
SortedByName(ds) ==
    IF ds = {} THEN <<>>
    ELSE LET d == CHOOSE x \in ds : \A y \in ds : NameRank(x.pkg) <= NameRank(y.pkg)
         IN  <<d>> \o SortedByName(ds \ {d})

(***************************************************************************)
(* PartialSolution.                                                        *)
(***************************************************************************)
Assignment(t, level, index, cause) ==
    [term |-> t, decision_level |-> level, index |-> index, cause |-> cause]

is_decision(a) == a.cause = 0

\* the current decision level: the number of decisions in the log
decision_level(asg) ==
    Cardinality({i \in 1..Len(asg) : is_decision(asg[i])})

\* the intersection of the terms on p among the first n assignments, None
\* when there is none
RECURSIVE assigned_term(_, _, _)
assigned_term(asg, p, n) ==
    IF n = 0 THEN None
    ELSE LET Met(before) ==
                 IF asg[n].term.pkg # p THEN before
                 ELSE IF before = None THEN asg[n].term
                 ELSE intersect(before, asg[n].term)
         IN  Strict(Met, assigned_term(asg, p, n - 1))

\* _positive / _negative of the package
accumulated(asg, p) == assigned_term(asg, p, Len(asg))

positive(asg, p) ==
    LET t == accumulated(asg, p) IN IF t # None /\ t.pos THEN t ELSE None

\* the decision map: package -> version
decisions(asg) ==
    {<<asg[i].term.pkg, CHOOSE v \in asg[i].term.rng : TRUE>> :
        i \in {j \in 1..Len(asg) : is_decision(asg[j])}}

decided(asg) == {d[1] : d \in decisions(asg)}

\* the packages with a positive term and no decision
unsatisfied(asg) ==
    {p \in AllPackages : positive(asg, p) # None} \ decided(asg)

Satisfied == "satisfied"
Contradicted == "contradicted"
Inconclusive == "inconclusive"

relation(asg, t) ==
    LET Of(acc) ==
            IF acc = None THEN Inconclusive
            ELSE IF satisfies(acc, t) THEN Satisfied
            ELSE IF contradicts(acc, t) THEN Contradicted
            ELSE Inconclusive
    IN  Strict(Of, accumulated(asg, t.pkg))

solution_satisfies(asg, t) == relation(asg, t) = Satisfied

\* the position of the earliest assignment whose accumulated intersection
\* first satisfies t
satisfier(asg, t) ==
    LET Earliest(hits) == CHOOSE n \in hits : \A m \in hits : n <= m
    IN  Strict(Earliest, {n \in 1..Len(asg) :
                             /\ asg[n].term.pkg = t.pkg
                             /\ satisfies(assigned_term(asg, t.pkg, n), t)})

decide(asg, p, v) ==
    Append(asg, Assignment(Term(p, TRUE, {v}), decision_level(asg) + 1,
                           Len(asg), 0))

\* derive with the decision level as the index
derive_index_by_level(asg, t, cause) ==
    Append(asg, Assignment(t, decision_level(asg), decision_level(asg), cause))

derive(asg, t, cause) ==
    Append(asg, Assignment(t, decision_level(asg), Len(asg), cause))

\* backtrack that also drops the assignments of the level itself
RECURSIVE backtrack_inclusive(_, _)
backtrack_inclusive(asg, level) ==
    IF Len(asg) > 0 /\ asg[Len(asg)].decision_level >= level
    THEN backtrack_inclusive(SubSeq(asg, 1, Len(asg) - 1), level)
    ELSE asg

\* drop assignments from the end of the log while their level is above
RECURSIVE backtrack(_, _)
backtrack(asg, level) ==
    IF Len(asg) > 0 /\ asg[Len(asg)].decision_level > level
    THEN backtrack(SubSeq(asg, 1, Len(asg) - 1), level)
    ELSE asg

(***************************************************************************)
(* The derivation graph.                                                   *)
(***************************************************************************)
Node(made, c, o) ==
    [terms |-> made.terms, cause |-> made.cause, conflict |-> c, other |-> o]

\* external_incompatibilities with the two parents in the other order
RECURSIVE external_incompatibilities_other_first(_, _)
external_incompatibilities_other_first(I, i) ==
    IF I[i].cause = ConflictCause
    THEN external_incompatibilities_other_first(I, I[i].other)
         \o external_incompatibilities_other_first(I, I[i].conflict)
    ELSE <<i>>

\* Incompatibility.external_incompatibilities of incs[i], as positions in I
RECURSIVE external_incompatibilities(_, _)
external_incompatibilities(I, i) ==
    IF I[i].cause = ConflictCause
    THEN external_incompatibilities(I, I[i].conflict)
         \o external_incompatibilities(I, I[i].other)
    ELSE <<i>>

(***************************************************************************)
(* Solver: unit propagation.                                               *)
(***************************************************************************)
Mentions(inc, p) == \E i \in 1..Len(inc.terms) : inc.terms[i].pkg = p

AddChanged(chg, p) ==
    IF \E i \in 1..Len(chg) : chg[i] = p THEN chg ELSE Append(chg, p)

\* propagate_incompatibility that derives from the last of several
\* inconclusive terms
propagate_incompatibility_last_open(asg, inc) ==
    LET n == Len(inc.terms)
        Of(rel) ==
            LET open == {i \in 1..n : rel[i] = Inconclusive}
            IN  IF \E i \in 1..n : rel[i] = Contradicted THEN [kind |-> "none"]
                ELSE IF open = {} THEN [kind |-> "conflict"]
                ELSE [kind |-> "derive",
                      term |-> inverse(inc.terms[CHOOSE i \in open :
                                                     \A j \in open : j <= i])]
    IN  Strict(Of, [i \in 1..n |-> relation(asg, inc.terms[i])])

\* conflict when every term is satisfied, a derivation when all but one are
propagate_incompatibility(asg, inc) ==
    LET n == Len(inc.terms)
        Of(rel) ==
            LET open == {i \in 1..n : rel[i] = Inconclusive}
            IN  IF \E i \in 1..n : rel[i] = Contradicted THEN [kind |-> "none"]
                ELSE IF open = {} THEN [kind |-> "conflict"]
                ELSE IF Cardinality(open) = 1
                THEN [kind |-> "derive",
                      term |-> inverse(inc.terms[CHOOSE i \in open : TRUE])]
                ELSE [kind |-> "none"]
    IN  Strict(Of, [i \in 1..n |-> relation(asg, inc.terms[i])])

\* the incompatibilities of list, in order, against the partial solution
RECURSIVE propagate_all(_, _, _, _)
propagate_all(I, list, asg, chg) ==
    IF list = <<>> THEN [asg |-> asg, chg |-> chg, conflict |-> 0]
    ELSE LET Visit(r) ==
                 IF r.kind = "conflict"
                 THEN [asg |-> asg, chg |-> chg, conflict |-> Head(list)]
                 ELSE IF r.kind = "derive"
                 THEN propagate_all(I, Tail(list),
                                    derive(asg, r.term, Head(list)),
                                    AddChanged(chg, r.term.pkg))
                 ELSE propagate_all(I, Tail(list), asg, chg)
         IN  Strict(Visit, propagate_incompatibility(asg, I[Head(list)]))

NoBacktrack == [bt EXCEPT !.fresh = FALSE]

\* the loop that keeps propagating although no package is left changed
NextStepNoDecide(found, chg) ==
    IF found # 0 THEN "resolve" ELSE "propagate"

\* the step after a propagation: conflict resolution on a conflict, the
\* next changed package if there is one, decision making otherwise
NextStep(found, chg) ==
    IF found # 0 THEN "resolve"
    ELSE IF chg = <<>> THEN "decide" ELSE "propagate"

\* an entry of the history of the solve
Event(k, p, n) == [kind |-> k, pkg |-> p, n |-> n]

\* step 1: pop a package, visit the incompatibilities that mention it
Propagate ==
    /\ pc = "propagate"
    /\ changed # <<>>
    /\ LET p == Head(changed)
           Of(i) == Mentions(incs[i], p)
       IN  \E list \in {SelectSeq(added, Of)} :
           \E r \in {propagate_all(incs, list, assignments, Tail(changed))} :
           /\ assignments' = r.asg
           /\ conflict' = r.conflict
           /\ changed' = IF r.conflict # 0 THEN <<>> ELSE r.chg
           /\ pc' = NextStep(r.conflict, r.chg)
           /\ events' = IF r.conflict # 0
                        THEN Append(events, Event("conflict", p, 0))
                        ELSE events
    /\ bt' = NoBacktrack
    /\ UNCHANGED <<provider, incs, added, calls, args, built>>
    /\ UNCHANGED otherVars

(***************************************************************************)
(* Solver: conflict resolution.                                            *)
(***************************************************************************)
Max(x, y) == IF x >= y THEN x ELSE y

\* the most recent satisfier of the terms i.. of inc, its term, the
\* difference and the previous satisfier level
RECURSIVE most_recent(_, _, _, _)
most_recent(asg, inc, i, acc) ==
    IF i > Len(inc.terms) THEN acc
    ELSE LET \* the satisfier s of the term i against the most recent so far
             Later(s) ==
                 IF acc.satisfier = 0
                 THEN [acc EXCEPT !.term = i, !.satisfier = s]
                 ELSE IF asg[acc.satisfier].index < asg[s].index
                 THEN [term |-> i, satisfier |-> s, difference |-> None,
                       previous_level |->
                           Max(acc.previous_level,
                               asg[acc.satisfier].decision_level)]
                 ELSE [acc EXCEPT !.previous_level =
                           Max(acc.previous_level, asg[s].decision_level)]
             \* what the most recent satisfier leaves of its term unsatisfied
             Differ(a1) ==
                 LET Level(d) ==
                         IF d = None THEN [a1 EXCEPT !.difference = None]
                         ELSE [a1 EXCEPT !.difference = d,
                                  !.previous_level =
                                      Max(a1.previous_level,
                                          asg[satisfier(asg, inverse(d))]
                                              .decision_level)]
                 IN  IF a1.term # i THEN a1
                     ELSE Strict(Level, difference(asg[a1.satisfier].term,
                                                   inc.terms[a1.term]))
             Rest(a2) == most_recent(asg, inc, i + 1, a2)
         IN  Strict(Rest,
                    Strict(Differ, Strict(Later, satisfier(asg, inc.terms[i]))))

MostRecent ==
    most_recent(assignments, incs[conflict], 1,
                [term |-> 0, satisfier |-> 0, difference |-> None,
                 previous_level |-> 0])

\* step 2: the conflicting incompatibility is the failure
ConflictFailure ==
    /\ pc = "resolve"
    /\ is_failure(incs[conflict])
    /\ pc' = "failed"
    /\ bt' = NoBacktrack
    /\ UNCHANGED <<provider, incs, added, assignments, changed, conflict,
                   events, calls, args, built>>
    /\ UNCHANGED otherVars

IsRootCause(m) ==
    \/ is_decision(assignments[m.satisfier])
    \/ m.previous_level < assignments[m.satisfier].decision_level

\* step 2: backjump, add the incompatibility, propagate the satisfier's
\* package
Backjump ==
    /\ pc = "resolve"
    /\ ~is_failure(incs[conflict])
    /\ \E m \in {MostRecent} :
           /\ IsRootCause(m)
           /\ assignments' = backtrack(assignments, m.previous_level)
           /\ bt' = [level |-> m.previous_level, log |-> assignments,
                     fresh |-> TRUE]
           /\ changed' = <<assignments[m.satisfier].term.pkg>>
           /\ events' = Append(events,
                               Event("backjump",
                                     assignments[m.satisfier].term.pkg,
                                     m.previous_level))
    /\ added' = Append(added, conflict)
    /\ conflict' = 0
    /\ pc' = "propagate"
    /\ UNCHANGED <<provider, incs, calls, args, built>>
    /\ UNCHANGED otherVars

\* the terms of resolve(I, A.cause, A.pkg)
ResolvedTerms(m) ==
    LET inc == incs[conflict]
        a == assignments[m.satisfier]
        NotRecent(t) == t # inc.terms[m.term]
        NotSatisfied(t) == t.pkg # a.term.pkg
    IN  SelectSeq(inc.terms, NotRecent)
        \o SelectSeq(incs[a.cause].terms, NotSatisfied)
        \o (IF m.difference = None THEN <<>> ELSE <<inverse(m.difference)>>)

\* step 2: resolve the incompatibility with the cause of its most recent
\* satisfier
Resolution ==
    /\ pc = "resolve"
    /\ ~is_failure(incs[conflict])
    /\ \E m \in {MostRecent} :
           /\ ~IsRootCause(m)
           /\ \E made \in {Incompatibility(ResolvedTerms(m), ConflictCause)} :
                  IF made.ok
                  THEN /\ incs' = Append(incs, Node(made, conflict,
                                             assignments[m.satisfier].cause))
                       /\ conflict' = Len(incs) + 1
                       /\ pc' = "resolve"
                  ELSE /\ pc' = "aborted"
                       /\ UNCHANGED <<incs, conflict>>
    /\ bt' = NoBacktrack
    /\ UNCHANGED <<provider, added, assignments, changed, events, calls,
                   args, built>>
    /\ UNCHANGED otherVars

(***************************************************************************)
(* Solver: decision making.                                                *)
(***************************************************************************)
Matching(p) == versions_for(p, positive(assignments, p).rng)

\* fewest matching versions first, ties by name
\* the selection that looks at the names alone
NextPackageByName ==
    CHOOSE p \in unsatisfied(assignments) :
        \A q \in unsatisfied(assignments) : NameRank(p) <= NameRank(q)

NextPackage ==
    LET First(count) ==
            CHOOSE p \in DOMAIN count : \A q \in DOMAIN count :
                \/ count[p] < count[q]
                \/ count[p] = count[q] /\ NameRank(p) <= NameRank(q)
    IN  Strict(First, [p \in unsatisfied(assignments) |->
                          Cardinality(Matching(p))])

\* step 4: every package with a positive term has a decision
Solved ==
    /\ pc = "decide"
    /\ unsatisfied(assignments) = {}
    /\ pc' = "solved"
    /\ bt' = NoBacktrack
    /\ UNCHANGED <<provider, incs, added, assignments, changed, conflict,
                   events, calls, args, built>>
    /\ UNCHANGED otherVars

\* step 3: no version of the package matches its positive term
ChooseNoVersions ==
    /\ pc = "decide"
    /\ unsatisfied(assignments) # {}
    /\ \E p \in {NextPackage} :
       \E made \in {Incompatibility(<<positive(assignments, p)>>,
                                     NoVersionsCause)} :
           /\ provider[p].fault \notin {NotFound, VersionsError}
           /\ Matching(p) = {}
           /\ incs' = Append(incs, Node(made, 0, 0))
           /\ added' = Append(added, Len(incs) + 1)
           /\ changed' = <<p>>
    /\ calls' = calls + 1
    /\ pc' = "propagate"
    /\ bt' = NoBacktrack
    /\ UNCHANGED <<provider, assignments, conflict, events, args, built>>
    /\ UNCHANGED otherVars

\* step 3, failure mode: the Provider denies that the package exists
ChoosePackageNotFound ==
    /\ pc = "decide"
    /\ unsatisfied(assignments) # {}
    /\ \E p \in {NextPackage} :
       \E made \in {Incompatibility(<<positive(assignments, p)>>,
                                     PackageNotFoundCause)} :
           /\ provider[p].fault = NotFound
           /\ incs' = Append(incs, Node(made, 0, 0))
           /\ added' = Append(added, Len(incs) + 1)
           /\ changed' = <<p>>
           /\ events' = Append(events, Event("not found", p, 0))
    /\ calls' = calls + 1
    /\ pc' = "propagate"
    /\ bt' = NoBacktrack
    /\ UNCHANGED <<provider, assignments, conflict, args, built>>
    /\ UNCHANGED otherVars

\* the engine that asks the Provider again after an error
AfterProviderErrorRetry == "decide"

\* the step after an error of the Provider: none, the error surfaces
AfterProviderError == "error"

\* step 3, failure mode: a call to the Provider raises another error; it
\* surfaces and the solve is over
ProviderError ==
    /\ pc = "decide"
    /\ unsatisfied(assignments) # {}
    /\ \E p \in {NextPackage} :
           /\ \/ /\ provider[p].fault = VersionsError
                 /\ calls' = calls + 1
              \/ /\ provider[p].fault = DependenciesError
                 /\ Matching(p) # {}
                 /\ calls' = calls + 2
           /\ events' = Append(events, Event("error", p, 0))
    /\ pc' = AfterProviderError
    /\ bt' = NoBacktrack
    /\ UNCHANGED <<provider, incs, added, assignments, changed, conflict,
                   args, built>>
    /\ UNCHANGED otherVars

\* the incompatibilities of the dependencies ds of p at version v
RECURSIVE incompatibilities_for(_, _, _)
incompatibilities_for(p, v, ds) ==
    IF ds = <<>> THEN <<>>
    ELSE <<Node(Incompatibility(<<Term(p, TRUE, {v}),
                                  Term(Head(ds).pkg, FALSE, Head(ds).rng)>>,
                                DependencyCause), 0, 0)>>
         \o incompatibilities_for(p, v, Tail(ds))

\* selecting p would satisfy the incompatibility at once
WouldConflict(asg, inc, p) ==
    \A i \in 1..Len(inc.terms) :
        inc.terms[i].pkg = p \/ solution_satisfies(asg, inc.terms[i])

\* step 3: add the dependencies of the newest matching version and decide
\* it, unless one of them is already violated
ChooseVersion ==
    /\ pc = "decide"
    /\ unsatisfied(assignments) # {}
    /\ \E p \in {NextPackage} :
           /\ provider[p].fault = NoFault
           /\ Matching(p) # {}
           /\ \E v \in {Newest(Matching(p))} :
              \E new \in {incompatibilities_for(p, v,
                               SortedByName(dependencies_of(p, v)))} :
              \E violated \in {\E i \in 1..Len(new) :
                                   WouldConflict(assignments, new[i], p)} :
                  /\ incs' = incs \o new
                  /\ added' = added \o [i \in 1..Len(new) |-> Len(incs) + i]
                  /\ assignments' = IF violated THEN assignments
                                    ELSE decide(assignments, p, v)
                  /\ events' = IF violated THEN events
                               ELSE Append(events, Event("decide", p, v))
                  /\ changed' = <<p>>
    /\ calls' = calls + 2
    /\ pc' = "propagate"
    /\ bt' = NoBacktrack
    /\ UNCHANGED <<provider, conflict, args, built>>
    /\ UNCHANGED otherVars

(***************************************************************************)
(* Rendering: Incompatibility.__str__ and and_to_string.                   *)
(***************************************************************************)
\* a returned string, a returned None, a raised exception
Str(s) == [kind |-> "str", text |-> s]
NoneStr == [kind |-> "None", text |-> ""]
Raise(e) == [kind |-> e, text |-> ""]

\* the payloads of PythonCause and PlatformCause
python_version == ">=3.8"
platform == "linux"

is_any(r) == r = AnyRange

RECURSIVE VersionsText(_)
VersionsText(r) ==
    LET v == CHOOSE x \in r : \A y \in r : x <= y
    IN  IF r = {v} THEN ToString(v)
        ELSE ToString(v) \o " || " \o VersionsText(r \ {v})

\* str(constraint)
ConstraintText(r) ==
    IF is_any(r) THEN "*" ELSE IF r = {} THEN "<empty>" ELSE VersionsText(r)

\* sep.join(list)
RECURSIVE Join(_, _)
Join(sep, list) ==
    IF list = <<>> THEN ""
    ELSE IF Len(list) = 1 THEN list[1]
    ELSE list[1] \o sep \o Join(sep, Tail(list))

_terse(term, allow_every) ==
    IF allow_every /\ is_any(term.rng) THEN "every version of " \o term.pkg
    ELSE IF is_root(term) THEN term.pkg
    ELSE term.pkg \o " (" \o ConstraintText(term.rng) \o ")"

\* the terms of the list with the sign, tersely
TerseWhere(terms, sign) ==
    LET Signed(t) == t.pos = sign
        kept == SelectSeq(terms, Signed)
    IN  [i \in 1..Len(kept) |-> _terse(kept[i], FALSE)]

\* the only term of the sign, None when there is none or more than one
_single_term_where(terms, sign) ==
    LET at == {i \in 1..Len(terms) : terms[i].pos = sign}
    IN  IF Cardinality(at) = 1 THEN terms[CHOOSE i \in at : TRUE] ELSE None

\* the rendering without the templates of one sign for two terms
StrOfTermsWithoutPairs(terms) ==
    LET positives == TerseWhere(terms, TRUE)
        negatives == TerseWhere(terms, FALSE)
    IN  IF Len(terms) = 1
        THEN terms[1].pkg \o " is "
             \o (IF terms[1].pos THEN "forbidden" ELSE "required")
        ELSE IF positives # <<>> /\ negatives # <<>>
        THEN IF Len(positives) = 1
             THEN _terse(_single_term_where(terms, TRUE), TRUE) \o " requires "
                  \o Join(" or ", negatives)
             ELSE "if " \o Join(" and ", positives) \o " then "
                  \o Join(" or ", negatives)
        ELSE IF positives # <<>>
        THEN "one of " \o Join(" or ", positives) \o " must be false"
        ELSE "one of " \o Join(" or ", negatives) \o " must be true"

\* lines 177-230: the rendering of an incompatibility of no special cause
StrOfTerms(terms) ==
    LET positives == TerseWhere(terms, TRUE)
        negatives == TerseWhere(terms, FALSE)
    IN  IF Len(terms) = 1
        THEN terms[1].pkg \o " is "
             \o (IF terms[1].pos THEN "forbidden" ELSE "required")
        ELSE IF Len(terms) = 2 /\ terms[1].pos /\ terms[2].pos
        THEN (IF is_any(terms[1].rng) THEN terms[1].pkg
              ELSE _terse(terms[1], FALSE))
             \o " is incompatible with "
             \o (IF is_any(terms[2].rng) THEN terms[2].pkg
                 ELSE _terse(terms[2], FALSE))
        ELSE IF Len(terms) = 2 /\ ~terms[1].pos /\ ~terms[2].pos
        THEN "either " \o _terse(terms[1], FALSE) \o " or "
             \o _terse(terms[2], FALSE)
        ELSE IF positives # <<>> /\ negatives # <<>>
        THEN IF Len(positives) = 1
             THEN _terse(_single_term_where(terms, TRUE), TRUE) \o " requires "
                  \o Join(" or ", negatives)
             ELSE "if " \o Join(" and ", positives) \o " then "
                  \o Join(" or ", negatives)
        ELSE IF positives # <<>>
        THEN "one of " \o Join(" or ", positives) \o " must be false"
        ELSE "one of " \o Join(" or ", negatives) \o " must be true"

\* __str__ that does not look at the cause
__str__ignoring_cause(inc) ==
    IF is_failure(inc) THEN Str("version solving failed")
    ELSE Str(StrOfTerms(inc.terms))

\* Incompatibility.__str__
__str__(inc) ==
    LET terms == inc.terms
        OnePositive == Len(terms) = 1 /\ terms[1].pos
    IN  IF inc.cause = DependencyCause
        THEN IF Len(terms) = 2 /\ terms[1].pos /\ ~terms[2].pos
             THEN Str(_terse(terms[1], TRUE) \o " depends on "
                      \o _terse(terms[2], FALSE))
             ELSE Raise("AssertionError")
        ELSE IF inc.cause = PythonCause
        THEN IF OnePositive
             THEN Str(_terse(terms[1], TRUE) \o " requires " \o "Python "
                      \o python_version)
             ELSE Raise("AssertionError")
        ELSE IF inc.cause = PlatformCause
        THEN IF OnePositive
             THEN Str(_terse(terms[1], TRUE) \o " requires " \o "platform "
                      \o platform)
             ELSE Raise("AssertionError")
        ELSE IF inc.cause = NoVersionsCause
        THEN IF OnePositive
             THEN Str("no versions of " \o terms[1].pkg \o " match "
                      \o ConstraintText(terms[1].rng))
             ELSE Raise("AssertionError")
        ELSE IF inc.cause = PackageNotFoundCause
        THEN IF OnePositive
             THEN Str(terms[1].pkg \o " doesn't exist")
             ELSE Raise("AssertionError")
        ELSE IF inc.cause = RootCause
        THEN IF Len(terms) = 1 /\ ~terms[1].pos /\ is_root(terms[1])
             THEN Str(terms[1].pkg \o " is " \o ConstraintText(terms[1].rng))
             ELSE Raise("AssertionError")
        ELSE IF is_failure(inc) THEN Str("version solving failed")
        ELSE Str(StrOfTerms(terms))

\* a line number of the report, 0 for Python's None
NoLine == 0

\* " (n)" when the line is given
LineText(line) == IF line = NoLine THEN "" ELSE " (" \o ToString(line) \o ")"

Verb(inc) == IF inc.cause = DependencyCause THEN "depends on" ELSE "requires"

_try_requires_both(self, other, this_line, other_line) ==
    LET this_positive == _single_term_where(self.terms, TRUE)
        other_positive == _single_term_where(other.terms, TRUE)
    IN  IF Len(self.terms) = 1 \/ Len(other.terms) = 1 THEN NoneStr
        ELSE IF this_positive = None THEN NoneStr
        ELSE IF other_positive = None THEN NoneStr
        ELSE IF <<this_positive.pkg, this_positive.rng>>
                # <<other_positive.pkg, other_positive.rng>> THEN NoneStr
        ELSE Str(_terse(this_positive, TRUE) \o " "
                 \o (IF self.cause = DependencyCause
                        /\ other.cause = DependencyCause
                     THEN "depends on" ELSE "requires")
                 \o " both " \o Join(" or ", TerseWhere(self.terms, FALSE))
                 \o LineText(this_line)
                 \o " and " \o Join(" or ", TerseWhere(other.terms, FALSE))
                 \o LineText(other_line))

\* lines 356-392: the text once prior and latter are known
ThroughText(prior, prior_negative, prior_line, latter, latter_line) ==
    LET Positive(t) == t.pos
        prior_positives == SelectSeq(prior.terms, Positive)
    IN  IF Len(prior_positives) = 0 THEN Raise("IndexError")
        ELSE Str((IF Len(prior_positives) > 1
                  THEN "if " \o Join(" or ", TerseWhere(prior.terms, TRUE))
                       \o " then "
                  ELSE _terse(prior_positives[1], TRUE) \o " " \o Verb(prior)
                       \o " ")
                 \o _terse(prior_negative, FALSE)
                 \o LineText(prior_line)
                 \o " which " \o Verb(latter) \o " "
                 \o Join(" or ", TerseWhere(latter.terms, FALSE))
                 \o LineText(latter_line))

_try_requires_through(self, other, this_line, other_line) ==
    LET this_negative == _single_term_where(self.terms, FALSE)
        other_negative == _single_term_where(other.terms, FALSE)
        this_positive == _single_term_where(self.terms, TRUE)
        \* line 329 takes it from self as well
        other_positive == _single_term_where(self.terms, TRUE)
    IN  IF Len(self.terms) = 1 \/ Len(other.terms) = 1 THEN NoneStr
        ELSE IF this_negative = None /\ other_negative = None THEN NoneStr
        ELSE IF /\ this_negative # None
                /\ other_positive # None
                /\ this_negative.pkg = other_positive.pkg
                /\ satisfies(inverse(this_negative), other_positive)
        THEN ThroughText(self, this_negative, this_line, other, other_line)
        ELSE IF /\ other_negative # None
                /\ this_positive # None
                /\ other_negative.pkg = this_positive.pkg
                /\ satisfies(inverse(other_negative), this_positive)
        THEN ThroughText(other, other_negative, other_line, self, this_line)
        ELSE NoneStr

\* lines 418-448: the text once prior and latter are known
ForbiddenText(prior, prior_line, latter, latter_line) ==
    LET Positive(t) == t.pos
        positives == SelectSeq(prior.terms, Positive)
    IN  IF Len(positives) = 0 THEN Raise("IndexError")
        ELSE Str((IF Len(positives) > 1
                  THEN "if " \o Join(" or ", TerseWhere(prior.terms, TRUE))
                       \o " then "
                  ELSE _terse(positives[1], TRUE) \o " " \o Verb(prior) \o " ")
                 \o _terse(latter.terms[1], FALSE) \o " "
                 \o (IF prior_line = NoLine THEN ""
                     ELSE "(" \o ToString(prior_line) \o ") ")
                 \o (IF latter.cause = PythonCause
                     THEN "which requires Python " \o python_version
                     ELSE IF latter.cause = NoVersionsCause
                     THEN "which doesn't match any versions"
                     ELSE IF latter.cause = PackageNotFoundCause
                     THEN "which doesn't exist"
                     ELSE "which is forbidden")
                 \o LineText(latter_line))

_try_requires_forbidden(self, other, this_line, other_line) ==
    LET first == Len(self.terms) = 1
        prior == IF first THEN other ELSE self
        latter == IF first THEN self ELSE other
        prior_line == IF first THEN other_line ELSE this_line
        latter_line == IF first THEN this_line ELSE other_line
        negative == _single_term_where(prior.terms, FALSE)
    IN  IF Len(self.terms) # 1 /\ Len(other.terms) # 1 THEN NoneStr
        ELSE IF negative = None THEN NoneStr
        ELSE IF ~satisfies(inverse(negative), latter.terms[1]) THEN NoneStr
        ELSE ForbiddenText(prior, prior_line, latter, latter_line)

\* lines 255-264: the two renderings with their lines, joined by newlines
Concatenation(self, other, this_line, other_line) ==
    LET this_str == __str__(self)
        other_str == __str__(other)
    IN  IF this_str.kind # "str" THEN this_str
        ELSE IF other_str.kind # "str" THEN other_str
        ELSE Str(Join("\n",
                      <<this_str.text>>
                      \o (IF this_line = NoLine THEN <<>>
                          ELSE <<" " \o ToString(this_line)>>)
                      \o <<" and " \o other_str.text>>
                      \o (IF other_line = NoLine THEN <<>>
                          ELSE <<" " \o ToString(other_line)>>)))

\* Incompatibility.and_to_string
and_to_string(self, other, this_line, other_line) ==
    LET both == _try_requires_both(self, other, this_line, other_line)
        through == _try_requires_through(self, other, this_line, other_line)
        forbidden == _try_requires_forbidden(self, other, this_line, other_line)
    IN  IF both.kind # "None" THEN both
        ELSE IF through.kind # "None" THEN through
        ELSE IF forbidden.kind # "None" THEN forbidden
        ELSE Concatenation(self, other, this_line, other_line)

(***************************************************************************)
(* LegacyRepository: the pages of the server, the cache store "matches",   *)
(* _find_packages and _get_release_info.                                   *)
(***************************************************************************)
\* the names callers use, and their normalized forms
RawNames == {"foo-bar", "Foo_Bar", "baz"}

\* packaging.utils.canonicalize_name: lower case, runs of - _ . become -
canonicalize_name(name) == IF name = "Foo_Bar" THEN "foo-bar" ELSE name

NormalizedNames == {canonicalize_name(n) : n \in RawNames}

\* the version strings callers use; "1" and "1.0" are the same version
VersionTexts == {"1", "1.0", "2"}

\* Version.parse
VersionParse(t) == IF t = "2" THEN 2 ELSE 1

\* a file link of a page: the package and the version its file name gives
Link(name, version) == [name |-> name, version |-> version]

\* _get_page's results: None, or the page with its links
NonePage == [found |-> FALSE, links |-> {}]
SimpleRepositoryPage(links) == [found |-> TRUE, links |-> links]

\* the pages a server can have for a package
Pages(name) ==
    {NonePage} \cup {SimpleRepositoryPage({Link(name, v) : v \in vs}) :
                        vs \in SUBSET Versions}

Endpoint(name) == "/" \o name \o "/"

\* self._get_page(endpoint): None when the response is empty
_get_page(rem, endpoint) ==
    IF \E n \in DOMAIN rem : Endpoint(n) = endpoint /\ rem[n].found
    THEN rem[CHOOSE n \in DOMAIN rem : Endpoint(n) = endpoint]
    ELSE NonePage

\* page.versions(name)
versions(page, name) ==
    {l.version : l \in {x \in page.links : x.name = canonicalize_name(name)}}

\* page.links_for_version(name, version)
links_for_version(page, name, version) ==
    {l \in page.links :
        l.name = canonicalize_name(name) /\ l.version = version}

\* the constraints of the calls: str(), is_any() and allows()
VersionConstraint(t, any, allowed) ==
    [text |-> t, any |-> any, allowed |-> allowed]

Constraints ==
    {VersionConstraint("*", TRUE, Versions),
     VersionConstraint("1", FALSE, {1}),
     VersionConstraint(">=2", FALSE, {v \in Versions : v >= 2})}

is_any_constraint(c) == c.any

allows(c, v) == v \in c.allowed

\* the key that leaves the constraint out
key_by_name(name, constraint) == name

\* lines 78-80: the key of a call in the cache store
key(name, constraint) ==
    IF ~is_any_constraint(constraint)
    THEN name \o ":" \o constraint.text
    ELSE name

CacheKeys == {key(n, c) : n \in NormalizedNames, c \in Constraints}

\* the entries of the store: absent, or the versions put
Absent == [has |-> FALSE, versions |-> {}]
Put(vs) == [has |-> TRUE, versions |-> vs]

\* _find_packages that puts the empty list when there is no page
_find_packages_caching_missing(rem, store, name, constraint) ==
    LET k == key(name, constraint)
    IN  IF store[k].has
        THEN [versions |-> store[k].versions, store |-> store, fetched |-> 0]
        ELSE LET page == _get_page(rem, Endpoint(name))
                 vs == {v \in versions(page, name) : allows(constraint, v)}
             IN  [versions |-> vs,
                  store |-> [store EXCEPT ![k] = Put(vs)],
                  fetched |-> 1]

\* _find_packages(name, constraint): the versions of the packages returned,
\* the store after the call and the number of pages fetched
_find_packages(rem, store, name, constraint) ==
    LET k == key(name, constraint)
    IN  IF store[k].has
        THEN [versions |-> store[k].versions, store |-> store, fetched |-> 0]
        ELSE LET page == _get_page(rem, Endpoint(name))
             IN  IF ~page.found
                 THEN [versions |-> {}, store |-> store, fetched |-> 1]
                 ELSE LET vs == {v \in versions(page, name) :
                                    allows(constraint, v)}
                      IN  [versions |-> vs,
                           store |-> [store EXCEPT ![k] = Put(vs)],
                           fetched |-> 1]

\* what a call of _get_release_info gives: the data or the exception
Outcome(kind, name, version, files) ==
    [kind |-> kind, name |-> name, version |-> version, files |-> files]

\* HTTPRepository._links_to_data(links, data): no link, no package
_links_to_data(links, name, version) ==
    IF links = {} THEN Outcome("PackageNotFound", name, version, {})
    ELSE Outcome("data", name, version, links)

\* _get_release_info that does not look at what _get_page returned
_get_release_info_unchecked(rem, name, version) ==
    LET page == _get_page(rem, Endpoint(canonicalize_name(name)))
    IN  IF ~page.found THEN Outcome("AttributeError", name, version, {})
        ELSE _links_to_data(
                 links_for_version(page, name, VersionParse(version)),
                 name, version)

\* _get_release_info(name, version)
_get_release_info(rem, name, version) ==
    LET page == _get_page(rem, Endpoint(canonicalize_name(name)))
    IN  IF ~page.found THEN Outcome("PackageNotFound", name, version, {})
        ELSE _links_to_data(
                 links_for_version(page, name, VersionParse(version)),
                 name, version)

\* an entry of the history
Call(op, name, arg, k, vs, kind, fetched) ==
    [op |-> op, name |-> name, arg |-> arg, key |-> k, versions |-> vs,
     kind |-> kind, fetched |-> fetched]

\* the number of calls and expiries a history holds
MaxCalls == 3

RepoIdle ==
    /\ remote = [n \in {} |-> NonePage]
    /\ matches = [k \in {} |-> Absent]
    /\ history = <<>>

(***************************************************************************)
(* ConfigCommand: the config command on config.toml and auth.toml.         *)
(***************************************************************************)
\* the repositories the commands name
RepositoryNames == {"foo", "bar"}

\* the prefixes the expression ^repos?(?:itories)? accepts among the keys
Aliases == {"repositories", "repos", "repo"}

\* lines 102-105: unique_config_values
unique_config_values ==
    {"settings.virtualenvs.create", "settings.pypi.fallback"}

\* the keys of the commands; the empty key is no key
Keys ==
    {al \o "." \o x : al \in Aliases, x \in RepositoryNames}
    \cup Aliases \cup unique_config_values
    \cup {"http-basic.foo", "settings.cache-dir", ""}

\* the values of the commands on a key: none, one, or more
Values(k) ==
    IF k \in unique_config_values
    THEN {<<>>, <<"true">>, <<"false">>, <<"1">>, <<"0">>, <<"yes">>,
          <<"true", "false">>}
    ELSE IF k = "http-basic.foo"
    THEN {<<>>, <<"user">>, <<"user", "pass">>, <<"user", "pass", "x">>}
    ELSE IF k = "settings.cache-dir" THEN {<<>>, <<"true">>}
    ELSE IF k = "" THEN {<<>>}
    ELSE {<<>>, <<"https://bar.com/simple/">>, <<"https://foo.org/">>,
          <<"https://bar.com/simple/", "https://foo.org/">>}

\* --list alone, or before a key and its values
Options(k) ==
    IF k \in {"", "repositories.foo", "http-basic.foo"} THEN BOOLEAN
    ELSE {FALSE}

\* what the user types at the prompt 'Password:'
Secrets == {"secret"}

\* the match of an expression: group 1, and the empty string for no group
NoMatch == [matched |-> FALSE, group1 |-> ""]
MatchOf(g) == [matched |-> TRUE, group1 |-> g]

\* re.match that knows the key repositories alone
RepositoriesMatchExact(k) ==
    IF \E x \in RepositoryNames : k = "repositories." \o x
    THEN MatchOf(CHOOSE x \in RepositoryNames : k = "repositories." \o x)
    ELSE IF k = "repositories" THEN MatchOf("")
    ELSE NoMatch

\* lines 75, 118: re.match('^repos?(?:itories)?(?:\.(.+))?', key)
RepositoriesMatch(k) ==
    IF \E al \in Aliases, x \in RepositoryNames : k = al \o "." \o x
    THEN MatchOf(CHOOSE x \in RepositoryNames :
                     \E al \in Aliases : k = al \o "." \o x)
    ELSE IF k \in Aliases THEN MatchOf("")
    ELSE NoMatch

\* line 153: re.match('^(http-basic)\.(.+)', key); group1 is group 2 here
AuthMatch(k) == IF k = "http-basic.foo" THEN MatchOf("foo") ELSE NoMatch

\* Python's None, True and False in the files
PyNone == "None"
PyBool(b) == IF b THEN "True" ELSE "False"

\* config.toml after TEMPLATE, auth.toml after AUTH_TEMPLATE
TEMPLATE ==
    [repositories |-> [x \in RepositoryNames |-> PyNone],
     settings |-> [k \in unique_config_values |-> PyNone]]
AUTH_TEMPLATE == [x \in {"foo"} |-> <<>>]

\* Config.setting('repositories.X'): the url table of X, None without one
repository_setting(c, x) == c.repositories[x]

\* Config.add_property('repositories.X.url', url)
add_repository(c, x, url) ==
    [c EXCEPT !.repositories = [@ EXCEPT ![x] = url]]

\* Config.remove_property('repositories.X')
remove_repository(c, x) ==
    [c EXCEPT !.repositories = [@ EXCEPT ![x] = PyNone]]

\* Config.add_property(key, value) and remove_property(key) of a setting
add_property(c, k, value) == [c EXCEPT !.settings = [@ EXCEPT ![k] = value]]
remove_property(c, k) == [c EXCEPT !.settings = [@ EXCEPT ![k] = PyNone]]

\* what handle returns or raises, and the files it leaves
Returned(how, c, a) == [outcome |-> how, content |-> c, auth |-> a]

\* line 99
boolean_validator(val) == val \in {"true", "false", "1", "0"}

\* the normalizer that takes every non-empty text for true
boolean_normalizer_truthy(val) == val # ""

\* line 100
boolean_normalizer(val) == val \in {"true", "1"}

\* the handler that stores the value before it validates it
_handle_single_value_storing_first(c, a, k, vals) ==
    IF Len(vals) > 1 THEN Returned("RuntimeError", c, a)
    ELSE LET stored ==
                 add_property(c, k, PyBool(boolean_normalizer(vals[1])))
         IN  IF ~boolean_validator(vals[1])
             THEN Returned("RuntimeError", stored, a)
             ELSE Returned("0", stored, a)

\* lines 197-211
_handle_single_value(c, a, k, vals) ==
    IF Len(vals) > 1 THEN Returned("RuntimeError", c, a)
    ELSE IF ~boolean_validator(vals[1]) THEN Returned("RuntimeError", c, a)
    ELSE Returned("0", add_property(c, k, PyBool(boolean_normalizer(vals[1]))),
               a)

\* lines 213-216
_remove_single_value(c, a, k) == Returned("0", remove_property(c, k), a)

\* lines 60-195: handle, with the argument key, the argument value and the
\* options --unset and --list
handle(c, a, k, vals, unset, list, secret) ==
    IF list THEN Returned("0", c, a)
    ELSE IF k = "" THEN Returned("0", c, a)
    ELSE IF vals # <<>> /\ unset THEN Returned("RuntimeError", c, a)
    ELSE IF vals = <<>> /\ ~unset
    THEN LET m == RepositoriesMatch(k)
         IN  IF /\ m.matched
                /\ m.group1 # ""
                /\ repository_setting(c, m.group1) = PyNone
             THEN Returned("ValueError", c, a)
             ELSE Returned("0", c, a)
    ELSE IF k \in unique_config_values
    THEN IF unset THEN _remove_single_value(c, a, k)
         ELSE _handle_single_value(c, a, k, vals)
    ELSE IF RepositoriesMatch(k).matched
    THEN LET x == RepositoriesMatch(k).group1
         IN  IF x = "" THEN Returned("ValueError", c, a)
             ELSE IF unset
             THEN IF repository_setting(c, x) = PyNone
                  THEN Returned("ValueError", c, a)
                  ELSE Returned("0", remove_repository(c, x), a)
             ELSE IF Len(vals) = 1
             THEN Returned("0", add_repository(c, x, vals[1]), a)
             ELSE Returned("ValueError", c, a)
    ELSE IF AuthMatch(k).matched
    THEN LET x == AuthMatch(k).group1
         IN  IF unset
             THEN IF a[x] = <<>> THEN Returned("ValueError", c, a)
                  ELSE Returned("0", c, [a EXCEPT ![x] = <<>>])
             ELSE IF Len(vals) = 1
             THEN Returned("0", c, [a EXCEPT ![x] = <<vals[1], secret>>])
             ELSE IF Len(vals) # 2 THEN Returned("ValueError", c, a)
             ELSE Returned("0", c, [a EXCEPT ![x] = <<vals[1], vals[2]>>])
    ELSE Returned("ValueError", c, a)

\* a command and how it ended
Command(k, vals, unset, list, how) ==
    [key |-> k, values |-> vals, unset |-> unset, list |-> list,
     outcome |-> how]

NoCommand == Command("", <<>>, FALSE, FALSE, "")

CfgIdle ==
    /\ content = TEMPLATE
    /\ auth = AUTH_TEMPLATE
    /\ cmd = NoCommand
    /\ removed = {}

(***************************************************************************)
(* CheckCommand: the check command.                                        *)
(***************************************************************************)
\* the messages poetry.check reports
Messages == {"name missing", "bad version"}

RECURSIVE MessageLists(_)
MessageLists(n) ==
    IF n = 0 THEN {<<>>}
    ELSE MessageLists(n - 1)
         \cup {Append(l, m) : l \in {x \in MessageLists(n - 1) :
                                        Len(x) = n - 1},
                              m \in Messages}

\* the results of self.poetry.check(self.poetry.local_config, strict=True)
CheckResults ==
    {[errors |-> e, warnings |-> w] :
        e \in MessageLists(MaxLen), w \in MessageLists(MaxLen)}

\* a line written by self.info or self.line
Written(method, line) == [method |-> method, text |-> line]

\* lines 17-18 and 20-21: the lines of a list of messages
RECURSIVE LinesOf(_, _, _)
LinesOf(open, close, messages) ==
    IF messages = <<>> THEN <<>>
    ELSE <<Written("line", open \o Head(messages) \o close)>>
         \o LinesOf(open, close, Tail(messages))

\* what the command returns with what it wrote
Exit(code, lines) == [code |-> code, lines |-> lines]

\* handle that looks at the errors alone
CheckCommand_handle_errors_only(result) ==
    IF result.errors = <<>>
    THEN Exit("0", <<Written("info", "All set!")>>)
    ELSE Exit("1",
              LinesOf("<error>Error: ", "</error>", result.errors)
              \o LinesOf("<warning>Warning: ", "</warning>",
                         result.warnings))

\* CheckCommand.handle
CheckCommand_handle(result) ==
    IF result.errors = <<>> /\ result.warnings = <<>>
    THEN Exit("0", <<Written("info", "All set!")>>)
    ELSE Exit("1",
              LinesOf("<error>Error: ", "</error>", result.errors)
              \o LinesOf("<warning>Warning: ", "</warning>",
                         result.warnings))

ChkIdle ==
    /\ check_result = [errors |-> <<>>, warnings |-> <<>>]
    /\ printed = <<>>
    /\ returned = ""

(***************************************************************************)
(* Specifications.                                                         *)
(***************************************************************************)
\* the ranges of the terms handed to the constructor: one version, or any
TermRanges == {{v} : v \in Versions} \cup {AnyRange}

\* a term on the root package names the root's own version
AllTerms ==
    {Term(p, s, r) : p \in Packages, s \in BOOLEAN, r \in TermRanges}
    \cup {Term(RootName, s, RootVersion) : s \in BOOLEAN}

NotBuilt == [ok |-> FALSE, terms |-> <<>>, cause |-> "none"]

\* the seed: Incompatibility([not root], RootCause), root marked changed
Seed(prov) ==
    /\ provider = prov
    /\ incs = <<Node(Incompatibility(<<Term(RootName, FALSE, RootVersion)>>,
                                     RootCause), 0, 0)>>
    /\ added = <<1>>
    /\ assignments = <<>>
    /\ changed = <<RootName>>
    /\ pc = "propagate"
    /\ conflict = 0
    /\ bt = [level |-> 0, log |-> <<>>, fresh |-> FALSE]
    /\ events = <<>>
    /\ calls = 0

\* and_to_string was not called
NoPair == [self |-> NotBuilt, other |-> NotBuilt, this_line |-> 0,
           other_line |-> 0]

StrIdle == pair = NoPair /\ text = NoneStr

Init ==
    /\ args = <<>>
    /\ built = NotBuilt
    /\ StrIdle
    /\ RepoIdle
    /\ CfgIdle
    /\ ChkIdle
    /\ \E r \in RootChoices, a \in Published("a"), b \in Published("b") :
           Seed([p \in AllPackages |->
                    IF p = RootName THEN r ELSE IF p = "a" THEN a ELSE b])

Next ==
    \/ Propagate
    \/ ConflictFailure
    \/ Backjump
    \/ Resolution
    \/ Solved
    \/ ChooseNoVersions
    \/ ChooseVersion

Spec == Init /\ [][Next]_vars

\* the solver is a synchronous loop: it takes its next step whenever it has one
SpecFair == Init /\ [][Next]_vars /\ WF_vars(Next)

\* a package the Provider fails on: it does not exist, or versions_for
\* raises, or it has versions and dependencies_of raises
Faulty ==
    {[versions |-> {}, deps |-> [v \in Versions |-> {}], fault |-> f] :
        f \in {NotFound, VersionsError}}
    \cup {[versions |-> vs, deps |-> [v \in Versions |-> {}],
           fault |-> DependenciesError] : vs \in NonEmptyRanges}

\* the providers that fail on exactly one of the two packages
InitProv ==
    /\ args = <<>>
    /\ built = NotBuilt
    /\ StrIdle
    /\ RepoIdle
    /\ CfgIdle
    /\ ChkIdle
    /\ \E r \in RootChoices, q \in Packages :
       \E good \in Published(CHOOSE x \in Packages : x # q), bad \in Faulty :
           Seed([p \in AllPackages |->
                    IF p = RootName THEN r ELSE IF p = q THEN bad ELSE good])

NextProv ==
    \/ Propagate
    \/ ConflictFailure
    \/ Backjump
    \/ Resolution
    \/ Solved
    \/ ChooseNoVersions
    \/ ChooseVersion
    \/ ChoosePackageNotFound
    \/ ProviderError

SpecProv == InitProv /\ [][NextProv]_vars

\* a provider that offers nothing, for the runs of the constructor alone
EmptyProvider ==
    [p \in AllPackages |->
        [versions |-> IF p = RootName THEN RootVersion ELSE {},
         deps |-> [v \in Versions |-> {}],
         fault |-> NoFault]]

IncInit ==
    /\ args = <<>>
    /\ built = NotBuilt
    /\ StrIdle
    /\ RepoIdle
    /\ CfgIdle
    /\ ChkIdle
    /\ Seed(EmptyProvider)

\* the caller appends one more term to the list
AddTerm ==
    /\ built = NotBuilt
    /\ Len(args) < MaxLen
    /\ \E t \in AllTerms : args' = Append(args, t)
    /\ UNCHANGED built
    /\ UNCHANGED solverVars
    /\ UNCHANGED otherVars

\* the caller constructs Incompatibility(args, cause)
Construct ==
    /\ built = NotBuilt
    /\ \E cause \in Causes : built' = Incompatibility(args, cause)
    /\ UNCHANGED args
    /\ UNCHANGED solverVars
    /\ UNCHANGED otherVars

IncNext == AddTerm \/ Construct

SpecInc == IncInit /\ [][IncNext]_vars

\* the term lists of at most MaxLen terms
TermLists == UNION {[1..n -> AllTerms] : n \in 0..MaxLen}

\* the terms fit the cause, as __str__ asserts (lines 126-169)
WellFormed(inc) ==
    LET terms == inc.terms
    IN  IF inc.cause = DependencyCause
        THEN Len(terms) = 2 /\ terms[1].pos /\ ~terms[2].pos
        ELSE IF inc.cause = RootCause
        THEN Len(terms) = 1 /\ ~terms[1].pos /\ is_root(terms[1])
        ELSE IF inc.cause = ConflictCause THEN TRUE
        ELSE Len(terms) = 1 /\ terms[1].pos

\* the incompatibilities the constructor makes and __str__ accepts
Incompatibilities ==
    {inc \in {Incompatibility(ts, c) : ts \in TermLists, c \in Causes} :
        inc.ok /\ WellFormed(inc)}

\* the line numbers of the report: none, or a number
Lines == {<<NoLine, NoLine>>, <<1, NoLine>>, <<NoLine, 2>>, <<1, 2>>}

StrInit ==
    /\ args = <<>>
    /\ built = NotBuilt
    /\ StrIdle
    /\ RepoIdle
    /\ CfgIdle
    /\ ChkIdle
    /\ Seed(EmptyProvider)

\* self.and_to_string(other, details, this_line, other_line)
AndToString ==
    /\ pair = NoPair
    /\ \E self \in Incompatibilities, other \in Incompatibilities,
          l \in Lines :
           /\ pair' = [self |-> self, other |-> other, this_line |-> l[1],
                       other_line |-> l[2]]
           /\ text' = and_to_string(self, other, l[1], l[2])
    /\ UNCHANGED incVars
    /\ UNCHANGED solverVars
    /\ UNCHANGED repoVars
    /\ UNCHANGED cfgVars
    /\ UNCHANGED chkVars

StrNext == AndToString

SpecStr == StrInit /\ [][StrNext]_vars

\* a server that has never had "baz", and any page or none for "foo-bar"
RepoInit ==
    /\ args = <<>>
    /\ built = NotBuilt
    /\ Seed(EmptyProvider)
    /\ StrIdle
    /\ \E page \in Pages("foo-bar") :
           remote = [n \in NormalizedNames |->
                        IF n = "foo-bar" THEN page ELSE NonePage]
    /\ matches = [k \in CacheKeys |-> Absent]
    /\ history = <<>>
    /\ CfgIdle
    /\ ChkIdle

RepoUnchanged == UNCHANGED <<incVars, solverVars, strVars, cfgVars, chkVars>>

\* a call of repository._find_packages(name, constraint)
FindPackages ==
    /\ Len(history) < MaxCalls
    /\ \E n \in NormalizedNames, c \in Constraints :
       \E r \in {_find_packages(remote, matches, n, c)} :
           /\ matches' = r.store
           /\ history' = Append(history,
                  Call("find", n, c.text, key(n, c), r.versions,
                       IF r.fetched = 0 THEN "hit"
                       ELSE IF r.store[key(n, c)].has THEN "stored"
                       ELSE "no page",
                       r.fetched))
    /\ UNCHANGED remote
    /\ RepoUnchanged

\* line 96: an entry put for 5 minutes leaves the store
Expire ==
    /\ Len(history) < MaxCalls
    /\ \E k \in CacheKeys :
           /\ matches[k].has
           /\ matches' = [matches EXCEPT ![k] = Absent]
           /\ history' = Append(history,
                  Call("expire", "", "", k, {}, "", 0))
    /\ UNCHANGED remote
    /\ RepoUnchanged

\* a call of repository._get_release_info(name, version)
GetReleaseInfo ==
    /\ Len(history) < MaxCalls
    /\ \E n \in RawNames, v \in VersionTexts :
       \E r \in {_get_release_info(remote, n, v)} :
           history' = Append(history,
               Call("release", n, v, "", {l.version : l \in r.files}, r.kind,
                    1))
    /\ UNCHANGED <<remote, matches>>
    /\ RepoUnchanged

\* the server's page of "foo-bar" changes
Publish ==
    /\ \E page \in Pages("foo-bar") \ {remote["foo-bar"]} :
           remote' = [remote EXCEPT !["foo-bar"] = page]
    /\ UNCHANGED <<matches, history>>
    /\ RepoUnchanged

RepoNext ==
    \/ FindPackages
    \/ Expire
    \/ GetReleaseInfo
    \/ Publish

SpecRepo == RepoInit /\ [][RepoNext]_vars

\* the files as initialize leaves them
CfgInit ==
    /\ args = <<>>
    /\ built = NotBuilt
    /\ Seed(EmptyProvider)
    /\ StrIdle
    /\ RepoIdle
    /\ CfgIdle
    /\ ChkIdle

\* poetry config key value... [--unset] [--list]
Handle ==
    /\ \E k \in Keys, unset \in BOOLEAN, secret \in Secrets :
       \E vals \in Values(k), list \in Options(k) :
       \E r \in {handle(content, auth, k, vals, unset, list, secret)} :
       \E m \in {RepositoriesMatch(k)} :
           /\ content' = r.content
           /\ auth' = r.auth
           /\ cmd' = Command(k, vals, unset, list, r.outcome)
           /\ removed' =
                  IF list \/ ~m.matched \/ m.group1 = "" \/ r.outcome # "0"
                  THEN removed
                  ELSE IF unset THEN removed \cup {m.group1}
                  ELSE IF vals # <<>> THEN removed \ {m.group1}
                  ELSE removed
    /\ UNCHANGED <<incVars, solverVars, strVars, repoVars, chkVars>>

CfgNext == Handle

SpecCfg == CfgInit /\ [][CfgNext]_vars

\* the command before it runs, on any result of the check
ChkInit ==
    /\ args = <<>>
    /\ built = NotBuilt
    /\ Seed(EmptyProvider)
    /\ StrIdle
    /\ RepoIdle
    /\ CfgIdle
    /\ check_result \in CheckResults
    /\ printed = <<>>
    /\ returned = ""

\* poetry check
CheckHandle ==
    /\ returned = ""
    /\ \E r \in {CheckCommand_handle(check_result)} :
           /\ printed' = r.lines
           /\ returned' = r.code
    /\ UNCHANGED check_result
    /\ UNCHANGED <<incVars, solverVars, strVars, repoVars, cfgVars>>

ChkNext == CheckHandle

SpecChk == ChkInit /\ [][ChkNext]_vars

\* the terms of the lists given to str(): three packages and the root
ShowTerms ==
    {Term(p, s, r) : p \in {"a", "b", "c"}, s \in BOOLEAN,
                     r \in {{1}, AnyRange}}
    \cup {Term(RootName, s, RootVersion) : s \in BOOLEAN}

\* a caller with any list of up to MaxLen of the terms
ShowInit ==
    /\ args \in UNION {[1..n -> ShowTerms] : n \in 0..MaxLen}
    /\ built = NotBuilt
    /\ Seed(EmptyProvider)
    /\ StrIdle
    /\ RepoIdle
    /\ CfgIdle
    /\ ChkIdle

\* str(incompatibility) of the incompatibility constructed
Render ==
    /\ built # NotBuilt
    /\ built.ok
    /\ text = NoneStr
    /\ text' = __str__(built)
    /\ UNCHANGED <<args, built, pair>>
    /\ UNCHANGED <<solverVars, repoVars, cfgVars, chkVars>>

ShowNext == Construct \/ Render

SpecShow == ShowInit /\ [][ShowNext]_vars

(***************************************************************************)
(* Properties of the Incompatibility constructor (SpecInc).                *)
(***************************************************************************)
Constructed == built # NotBuilt

Made == Constructed /\ built.ok

\* the positions of the terms of list s on package p
On(s, p) == {i \in 1..Len(s) : s[i].pkg = p}

PackagesOf(s) == {s[i].pkg : i \in 1..Len(s)}

\* the terms of s on package p, in the order of s
TermsOn(s, p) == LET Same(t) == t.pkg = p IN SelectSeq(s, Same)

\* t1 /\ t2 /\ ... from left to right, None once it is empty
RECURSIVE RunningIntersection(_)
RunningIntersection(s) ==
    IF Len(s) = 1 THEN s[1]
    ELSE LET before == RunningIntersection(SubSeq(s, 1, Len(s) - 1))
         IN  IF before = None THEN None ELSE intersect(before, s[Len(s)])

\* what the claims C4 and C5 say of the list s the terms are taken from
CoalescedFrom(s) ==
    /\ \A i, j \in 1..Len(built.terms) :
           built.terms[i].pkg = built.terms[j].pkg => i = j
    /\ PackagesOf(built.terms) = PackagesOf(s)
    /\ \A p \in PackagesOf(s) :
           \E i \in 1..Len(built.terms) :
               built.terms[i] = RunningIntersection(TermsOn(s, p))

EmptyIntersectionIn(s) ==
    \E p \in PackagesOf(s) : RunningIntersection(TermsOn(s, p)) = None

\* the terms the constructor keeps before it coalesces: all of them, but
\* for the positive root terms of a Conflict cause with a list not of length 1
Remaining ==
    IF built.cause = ConflictCause /\ Len(args) # 1
    THEN LET NotPositiveRoot(t) == ~(t.pos /\ t.pkg = RootName)
         IN  SelectSeq(args, NotPositiveRoot)
    ELSE args

C4_CoalescedFromInput == Made => CoalescedFrom(args)

\* C4 amended: the object's terms are the coalesced terms of the input
\* without the positive root terms a Conflict cause drops from a list whose
\* length is not one: at most one term per package, the successive
\* intersection of the remaining terms on it, a lone term unchanged.
C4_CoalescedFromRemaining == Made => CoalescedFrom(Remaining)

\* three terms, two of them on one package, were coalesced into two terms
C4_Witness ==
    /\ Made
    /\ Len(args) = 3
    /\ Len(built.terms) = 2
    /\ \E p \in Packages : Cardinality(On(args, p)) = 2
    /\ \E i \in 1..2, j \in 1..3 : built.terms[i] = args[j]
    /\ \E i \in 1..2 : \A j \in 1..3 : built.terms[i] # args[j]

\* C5 as stated: no object is made from input terms on one package whose
\* running intersection is empty; the constructor aborts instead.
C5_AbortsOnEmptyInputIntersection ==
    (Constructed /\ EmptyIntersectionIn(args)) => ~built.ok

\* C5 amended: the constructor aborts exactly when the running intersection
\* of the terms on one package is empty among the terms that are coalesced,
\* that is the input without the positive root terms a Conflict cause drops
\* from a list whose length is not one; this holds of two same-package terms
\* and of longer lists alike.
C5_AbortsOnEmptyRemainingIntersection ==
    Constructed => (~built.ok <=> EmptyIntersectionIn(Remaining))

\* the constructor aborted on three terms on one package that are pairwise
\* compatible
C5_Witness ==
    /\ Constructed
    /\ ~built.ok
    /\ Len(args) = 3
    /\ \E p \in Packages : On(args, p) = 1..3
    /\ \A i, j \in 1..3 : intersect(args[i], args[j]) # None

\* C6: a Conflict cause with a term list whose length is not one leaves no
\* positive root term and keeps the package of every other input term; any
\* other cause, or a list of one term, removes no root term.
C6_RootStripped ==
    Made =>
        IF built.cause = ConflictCause /\ Len(args) # 1
        THEN /\ \A i \in 1..Len(built.terms) :
                    ~(built.terms[i].pos /\ built.terms[i].pkg = RootName)
             /\ \A j \in 1..Len(args) :
                    ~(args[j].pos /\ args[j].pkg = RootName) =>
                        \E i \in 1..Len(built.terms) :
                            /\ built.terms[i].pkg = args[j].pkg
                            /\ satisfies(built.terms[i], args[j])
        ELSE \A j \in 1..Len(args) :
                 args[j].pkg = RootName =>
                     \E i \in 1..Len(built.terms) :
                         /\ built.terms[i].pkg = RootName
                         /\ args[j].pos => built.terms[i].pos

\* a positive root term was dropped, a negative root term and another kept
C6_Witness ==
    /\ Made
    /\ built.cause = ConflictCause
    /\ Len(args) = 3
    /\ \E j \in 1..3 : args[j].pos /\ args[j].pkg = RootName
    /\ \E j \in 1..3 : ~args[j].pos /\ args[j].pkg = RootName
    /\ Len(built.terms) = 2

\* the arguments are [+pkg@{V}, not dep_pkg in dep_range]
DependencyArgs ==
    /\ Len(args) = 2
    /\ args[1].pos
    /\ Cardinality(args[1].rng) = 1
    /\ ~args[2].pos

\* C23: the incompatibility of a dependency, built from [+pkg@{V}, not
\* dep_pkg in dep_range] with the Dependency cause, has after the
\* constructor two terms, the positive depender first and the negative
\* dependee second, and renders without a failed assertion; one built from
\* a positive term with the NoVersions or PackageNotFound cause has that one
\* positive term, and the Root incompatibility one negative root term.
C23_CauseShapes ==
    Constructed =>
        /\ (built.cause = DependencyCause /\ DependencyArgs) =>
               /\ built.ok
               /\ built.terms = args
               /\ __str__(built).kind = "str"
        /\ (/\ built.cause \in {NoVersionsCause, PackageNotFoundCause}
            /\ Len(args) = 1
            /\ args[1].pos) =>
               /\ built.ok
               /\ built.terms = args
               /\ __str__(built).kind = "str"
        /\ (/\ built.cause = RootCause
            /\ args = <<Term(RootName, FALSE, RootVersion)>>) =>
               /\ built.ok
               /\ built.terms = args
               /\ __str__(built).kind = "str"

(***************************************************************************)
(* Properties of the solver (Spec).                                        *)
(***************************************************************************)
\* one version, or none (0), for every package
Selections == [AllPackages -> Versions \cup {0}]

\* sel holds the root at its version, only offered versions, and for every
\* selected version a selected version within each of its dependency ranges
Consistent(sel) ==
    /\ sel[RootName] \in RootVersion
    /\ \A p \in AllPackages :
           sel[p] # 0 =>
               /\ sel[p] \in provider[p].versions
               /\ \A d \in provider[p].deps[sel[p]] :
                      sel[d.pkg] # 0 /\ sel[d.pkg] \in d.rng

Solvable == \E sel \in Selections : Consistent(sel)

Ended == pc \in {"solved", "failed", "aborted"}

C2_DecisionsWithinPositive ==
    pc = "solved" =>
        /\ \A p \in AllPackages :
               positive(assignments, p) # None => p \in decided(assignments)
        /\ \A d \in decisions(assignments) :
               /\ positive(assignments, d[1]) # None
               /\ d[2] \in positive(assignments, d[1]).rng

\* a solve succeeded with a and b decided, a below its newest version
C2_Witness ==
    /\ pc = "solved"
    /\ decided(assignments) = AllPackages
    /\ provider["a"].versions = Versions
    /\ <<"a", 1>> \in decisions(assignments)

\* C7: right after backtrack(L) the log is the log before it without the
\* assignments of a level above L, in the same order; these stay the head of
\* the log, and the next assignment appended has a level <= L + 1.
C7_BacktrackKeepsLowerLevels ==
    LET Kept(a) == a.decision_level <= bt.level
        kept == SelectSeq(bt.log, Kept)
    IN  /\ bt.fresh => assignments = kept
        /\ Len(assignments) >= Len(kept)
        /\ SubSeq(assignments, 1, Len(kept)) = kept
        /\ Len(assignments) > Len(kept) =>
               assignments[Len(kept) + 1].decision_level <= bt.level + 1

\* a backtrack dropped assignments, kept others, and a new one was appended
C7_Witness ==
    LET Kept(a) == a.decision_level <= bt.level
        kept == SelectSeq(bt.log, Kept)
    IN  /\ bt.level >= 1
        /\ Len(kept) + 2 <= Len(bt.log)
        /\ Len(assignments) > Len(kept)
        /\ assignments[Len(kept) + 1].decision_level = bt.level

\* C8: along the log the assignment indices increase strictly and the
\* decision levels never decrease.
C8_LogOrdered ==
    \A i, j \in 1..Len(assignments) :
        i < j =>
            /\ assignments[i].index < assignments[j].index
            /\ assignments[i].decision_level <= assignments[j].decision_level

\* a log built after a backtrack, with decisions and derivations
C8_Witness ==
    /\ bt.log # <<>>
    /\ Len(assignments) >= 5
    /\ \E i \in 1..Len(assignments) : assignments[i].decision_level >= 3
    /\ Len(assignments) > Len(bt.log)

Prefix(n) == SubSeq(assignments, 1, n)

\* C9: for every derivation of the log, the assignments before it do not
\* satisfy its term and together with it they do; its cause has every other
\* term satisfied by them, and the one term left is on the derivation's
\* package and is the negation of the derived term.
C9_DerivationsForced ==
    \A n \in 1..Len(assignments) :
        ~is_decision(assignments[n]) =>
            LET d == assignments[n]
                cause == incs[d.cause]
            IN  /\ ~solution_satisfies(Prefix(n - 1), d.term)
                /\ solution_satisfies(Prefix(n), d.term)
                /\ \E i \in 1..Len(cause.terms) :
                       /\ cause.terms[i] = inverse(d.term)
                       /\ relation(Prefix(n - 1), cause.terms[i]) = Inconclusive
                       /\ \A j \in 1..Len(cause.terms) :
                              j # i =>
                                  solution_satisfies(Prefix(n - 1), cause.terms[j])

\* a derivation was forced by a learned incompatibility of two terms
C9_Witness ==
    \E n \in 1..Len(assignments) :
        /\ ~is_decision(assignments[n])
        /\ incs[assignments[n].cause].cause = ConflictCause
        /\ Len(incs[assignments[n].cause].terms) = 2

Parents(S) ==
    {incs[i].conflict : i \in {j \in S : incs[j].cause = ConflictCause}}
    \cup {incs[i].other : i \in {j \in S : incs[j].cause = ConflictCause}}

RECURSIVE ReachableFrom(_)
ReachableFrom(S) ==
    IF Parents(S) \subseteq S THEN S ELSE ReachableFrom(S \cup Parents(S))

\* the incompatibilities without a Conflict cause reachable from incs[i]
Leaves(i) == {j \in ReachableFrom({i}) : incs[j].cause # ConflictCause}

Yielded(i) == external_incompatibilities(incs, i)

\* C10: external_incompatibilities yields exactly the reachable
\* incompatibilities whose cause is not a Conflict cause (itself for such an
\* incompatibility), and those under conflict before those under other.
C10_ExternalIncompatibilities ==
    \A i \in 1..Len(incs) :
        LET y == Yielded(i)
        IN  /\ {y[k] : k \in 1..Len(y)} = Leaves(i)
            /\ \A k \in 1..Len(y) : incs[y[k]].cause # ConflictCause
            /\ incs[i].cause # ConflictCause => y = <<i>>
            /\ incs[i].cause = ConflictCause =>
                   LET n == Len(Yielded(incs[i].conflict))
                   IN  /\ n < Len(y)
                       /\ \A k \in 1..Len(y) :
                              IF k <= n
                              THEN y[k] \in Leaves(incs[i].conflict)
                              ELSE y[k] \in Leaves(incs[i].other)

\* a derivation graph two conflicts deep whose parents have different leaves
C10_Witness ==
    \E i \in 1..Len(incs) :
        /\ incs[i].cause = ConflictCause
        /\ incs[incs[i].conflict].cause = ConflictCause
        /\ Leaves(incs[i].conflict) \cap Leaves(incs[i].other) = {}
        /\ Len(Yielded(i)) >= 3

Happened(kind) == {i \in 1..Len(events) : events[i].kind = kind}

NotFoundFor(p) ==
    {k \in 1..Len(added) :
        /\ incs[added[k]].cause = PackageNotFoundCause
        /\ incs[added[k]].terms[1].pkg = p}

RootDependsOn(p) == \E d \in provider[RootName].deps[1] : d.pkg = p

\* C15: when the Provider raises PackageNotFound for a package the engine
\* surfaces no error; it has added an incompatibility of the PackageNotFound
\* cause with one positive term on the package, rendered "<name> doesn't
\* exist"; and when the root depends on the package the solve ends in failure
\* and the external incompatibilities of the failure include it.
C15_PackageNotFoundIncompatibility ==
    \A i \in Happened("not found") :
        LET p == events[i].pkg
        IN  /\ pc # "error"
            /\ NotFoundFor(p) # {}
            /\ \A k \in NotFoundFor(p) :
                   LET inc == incs[added[k]]
                   IN  /\ Len(inc.terms) = 1
                       /\ inc.terms[1].pos
                       /\ __str__(inc) = Str(p \o " doesn't exist")
            /\ RootDependsOn(p) =>
                   /\ pc # "solved"
                   /\ Ended =>
                          /\ pc = "failed"
                          /\ \E k \in NotFoundFor(p) :
                                 \E j \in 1..Len(Yielded(conflict)) :
                                     Yielded(conflict)[j] = added[k]

\* the root depends on a package that does not exist and the solve failed
C15_Witness ==
    /\ pc = "failed"
    /\ \E i \in Happened("not found") :
           /\ RootDependsOn(events[i].pkg)
           /\ Len(Yielded(conflict)) >= 2

(***************************************************************************)
(* The backtracking scenario (Spec).  Version 1 of a is a 1.0.0 and 2 is   *)
(* a 1.1.0; version 1 of b is b 1.0.0 and 2 is b 2.0.0, which nobody       *)
(* offers.                                                                 *)
(***************************************************************************)
Backtracking ==
    [p \in AllPackages |->
        IF p = RootName
        THEN [versions |-> RootVersion,
              deps |-> [v \in Versions |->
                           IF v \in RootVersion
                           THEN {Dependency("a", {1, 2}), Dependency("b", {1})}
                           ELSE {}],
              fault |-> NoFault]
        ELSE IF p = "a"
        THEN [versions |-> {1, 2},
              deps |-> [v \in Versions |->
                           IF v = 2 THEN {Dependency("b", {2})} ELSE {}],
              fault |-> NoFault]
        ELSE [versions |-> {1},
              deps |-> [v \in Versions |-> {}],
              fault |-> NoFault]]

\* the events on the packages other than the root
Story == SelectSeq(events, LAMBDA e : e.pkg # RootName)

Called == pair # NoPair

Both == _try_requires_both(pair.self, pair.other, pair.this_line,
                           pair.other_line)

Through == _try_requires_through(pair.self, pair.other, pair.this_line,
                                 pair.other_line)

Forbidden == _try_requires_forbidden(pair.self, pair.other, pair.this_line,
                                     pair.other_line)

Concatenated == Concatenation(pair.self, pair.other, pair.this_line,
                              pair.other_line)

\* C11: for every pair and_to_string returns a string: the requires-both
\* rendering when that template applies, else the requires-through rendering
\* when it applies, else the requires-forbidden rendering when it applies,
\* and the concatenation of the two renderings with their lines only when the
\* template moves on (returns None) for all three.
C11_PriorityOfTemplates ==
    Called =>
        /\ text.kind = "str"
        /\ Both.kind \in {"str", "None"}
        /\ Through.kind \in {"str", "None"}
        /\ Forbidden.kind \in {"str", "None"}
        /\ Both.kind = "str" => text = Both
        /\ (Both.kind = "None" /\ Through.kind = "str") => text = Through
        /\ (Both.kind = "None" /\ Through.kind = "None"
               /\ Forbidden.kind = "str") => text = Forbidden
        /\ (Both.kind = "None" /\ Through.kind = "None"
               /\ Forbidden.kind = "None") => text = Concatenated

\* x has one negative term, y has one positive term on the same package
\* and the inverse of the negative term satisfies the positive one
Pivot(x, y) ==
    LET only_negative == _single_term_where(x.terms, FALSE)
        only_positive == _single_term_where(y.terms, TRUE)
    IN  /\ only_negative # None
        /\ only_positive # None
        /\ only_negative.pkg = only_positive.pkg
        /\ satisfies(inverse(only_negative), only_positive)

\* the requires-through text with x before "which" and y after it
ThroughOf(x, x_line, y, y_line) ==
    ThroughText(x, _single_term_where(x.terms, FALSE), x_line, y, y_line)

\* C22: for two incompatibilities with a number of terms other than one the
\* requires-through template applies whenever one has a single negative term
\* and the other a single positive term on the same package that the inverse
\* of the negative term satisfies, whichever of the two holds the negative
\* term; the holder of the negative term is rendered first.
C22_RequiresThroughBothWays ==
    (Called /\ Len(pair.self.terms) # 1 /\ Len(pair.other.terms) # 1) =>
        /\ Pivot(pair.self, pair.other) =>
               /\ Through.kind = "str"
               /\ ~Pivot(pair.other, pair.self) =>
                      Through = ThroughOf(pair.self, pair.this_line,
                                          pair.other, pair.other_line)
        /\ Pivot(pair.other, pair.self) =>
               /\ Through.kind = "str"
               /\ ~Pivot(pair.self, pair.other) =>
                      Through = ThroughOf(pair.other, pair.other_line,
                                          pair.self, pair.this_line)

(***************************************************************************)
(* Properties of str() on a constructed incompatibility (SpecShow).        *)
(***************************************************************************)
Rendered == text # NoneStr

Count(sign) ==
    Cardinality({i \in 1..Len(built.terms) : built.terms[i].pos = sign})

\* the name of a term of any version, the terse form otherwise
Plain(t) == IF is_any(t.rng) THEN t.pkg ELSE _terse(t, FALSE)

\* the shapes of a term list, in the order the claim gives them
Shape(i) ==
    LET ts == built.terms
        n == Len(ts)
        failure == n = 0 \/ (n = 1 /\ ts[1].pkg = RootName)
    IN  CASE i = 1 -> failure
          [] i = 2 -> ~failure /\ n = 1 /\ ts[1].pos
          [] i = 3 -> ~failure /\ n = 1 /\ ~ts[1].pos
          [] i = 4 -> n = 2 /\ Count(TRUE) = 2
          [] i = 5 -> n = 2 /\ Count(FALSE) = 2
          [] i = 6 -> Count(TRUE) = 1 /\ Count(FALSE) >= 1
          [] i = 7 -> Count(TRUE) >= 2 /\ Count(FALSE) >= 1
          [] i = 8 -> n >= 3 /\ Count(FALSE) = 0
          [] i = 9 -> n >= 3 /\ Count(TRUE) = 0

\* the text of each shape
Template(i) ==
    LET ts == built.terms
        ps == TerseWhere(ts, TRUE)
        ns == TerseWhere(ts, FALSE)
    IN  CASE i = 1 -> "version solving failed"
          [] i = 2 -> ts[1].pkg \o " is forbidden"
          [] i = 3 -> ts[1].pkg \o " is required"
          [] i = 4 -> Plain(ts[1]) \o " is incompatible with " \o Plain(ts[2])
          [] i = 5 -> "either " \o ns[1] \o " or " \o ns[2]
          [] i = 6 -> _terse(_single_term_where(ts, TRUE), TRUE)
                      \o " requires " \o Join(" or ", ns)
          [] i = 7 -> "if " \o Join(" and ", ps) \o " then "
                      \o Join(" or ", ns)
          [] i = 8 -> "one of " \o Join(" or ", ps) \o " must be false"
          [] i = 9 -> "one of " \o Join(" or ", ns) \o " must be true"

\* C24: str() of an incompatibility of the Conflict cause is the text of
\* exactly one template, chosen by the terms: the failure, one positive or
\* one negative term, two positive or two negative terms, one positive term
\* with negative ones, two or more positive terms with negative ones, three
\* or more terms all positive or all negative; every term list has one.
C24_OneTemplate ==
    (Rendered /\ built.cause = ConflictCause) =>
        /\ text.kind = "str"
        /\ Cardinality({i \in 1..9 : Shape(i)}) = 1
        /\ \A i \in 1..9 : Shape(i) => text.text = Template(i)

\* three positive terms rendered as "one of ... must be false"
C24_Witness ==
    /\ Rendered
    /\ built.cause = ConflictCause
    /\ Len(built.terms) = 3
    /\ text.text = "one of a (1) or b (1) or c (1) must be false"

(***************************************************************************)
(* Properties of the legacy repository (SpecRepo).                         *)
(***************************************************************************)
\* the step is a call of the operation, logged last in the history
Logged(op) ==
    /\ Len(history') = Len(history) + 1
    /\ history'[Len(history')].op = op

\* the server has no page of the package or no link of the version on it
NoRelease(name, version) ==
    ~\E n \in DOMAIN remote :
        /\ n = canonicalize_name(name)
        /\ remote[n].found
        /\ \E l \in remote[n].links : l.version = VersionParse(version)

Finds == {i \in 1..Len(history) : history[i].op = "find"}

\* the entry of the key was not dropped between the two calls
Lives(k, i, j) ==
    \A e \in i..j : ~(history[e].op = "expire" /\ history[e].key = k)

ConstraintOf(t) == CHOOSE c \in Constraints : c.text = t

\* C18: after a call of _find_packages that fetched the page and stored its
\* matches, a later call with the same name and constraint, the entry still
\* in the store, returns the same versions and fetches nothing; the key is
\* the name for the any-constraint and name:constraint otherwise, so calls
\* that differ in the constraint differ in the key; and the versions stored
\* and returned are allowed by the constraint of the call.
C18_CachedMatches ==
    /\ \A i \in Finds, j \in Finds :
           /\ (/\ i < j
               /\ history[i].kind = "stored"
               /\ history[j].name = history[i].name
               /\ history[j].arg = history[i].arg
               /\ Lives(history[i].key, i, j))
                  => /\ history[j].versions = history[i].versions
                     /\ history[j].fetched = 0
           /\ (history[i].name = history[j].name
               /\ history[i].arg # history[j].arg)
                  => history[i].key # history[j].key
    /\ \A i \in Finds :
           /\ history[i].key =
                  IF history[i].arg = "*" THEN history[i].name
                  ELSE history[i].name \o ":" \o history[i].arg
           /\ \A v \in history[i].versions :
                  allows(ConstraintOf(history[i].arg), v)
           /\ matches[history[i].key].has =>
                  \A v \in matches[history[i].key].versions :
                      allows(ConstraintOf(history[i].arg), v)

\* a call stored version 2, the page then lost it, the second call returned
\* it from the store, and a call with another constraint fetched the page
C18_Witness ==
    /\ Len(history) = 3
    /\ history[1].kind = "stored"
    /\ history[2].kind = "hit"
    /\ history[2].key = history[1].key
    /\ history[2].versions = {2}
    /\ remote["foo-bar"] = SimpleRepositoryPage({Link("foo-bar", 1)})
    /\ history[3].op = "find"
    /\ history[3].name = history[1].name
    /\ history[3].arg # history[1].arg
    /\ history[3].fetched = 1

\* the step is a call of _find_packages, the last entry of the history
Found == history' # history /\ history'[Len(history')].op = "find"

\* the versions on the server's page of the name that the constraint allows
Available(name, arg) ==
    {v \in {l.version : l \in remote[name].links} :
        allows(ConstraintOf(arg), v)}

\* the earlier calls of the same name and constraint
Same(name, arg) ==
    {i \in Finds : history[i].name = name /\ history[i].arg = arg}

\* C26: a call of _find_packages whose key is not in the store and whose
\* page cannot be fetched returns nothing and leaves the store as it was,
\* so the next call of the same name and constraint fetches again, and
\* returns the versions of the page the constraint allows when the page is
\* there; the empty list enters the store only with a page fetched that has
\* no version the constraint allows.
C26_MissingPageNotCached ==
    [][/\ Found =>
            LET call == history'[Len(history')]
                same == Same(call.name, call.arg)
                last == CHOOSE i \in same : \A j \in same : j <= i
            IN  /\ (~matches[call.key].has /\ ~remote[call.name].found)
                       => /\ call.versions = {}
                          /\ call.kind = "no page"
                          /\ matches' = matches
                /\ (same # {} /\ history[last].kind = "no page")
                       => /\ call.fetched = 1
                          /\ remote[call.name].found
                                 => call.versions =
                                        Available(call.name, call.arg)
       /\ \A k \in CacheKeys :
              (matches'[k] = Put({}) /\ matches[k] # Put({}))
                  => /\ Found
                     /\ LET call == history'[Len(history')]
                        IN  /\ call.key = k
                            /\ call.fetched = 1
                            /\ remote[call.name].found
                            /\ Available(call.name, call.arg) = {}]_vars

\* a call found no page and stored nothing; the page was published, and the
\* same call then fetched it and returned its version
C26_Witness ==
    /\ Len(history) = 2
    /\ history[1] = Call("find", "foo-bar", "*", "foo-bar", {}, "no page", 1)
    /\ history[2] = Call("find", "foo-bar", "*", "foo-bar", {2}, "stored", 1)
    /\ matches["foo-bar"] = Put({2})

(***************************************************************************)
(* Properties of the config command (SpecCfg).                             *)
(***************************************************************************)
\* the step's command is on repository x, by the key or one of its aliases
OnRepository(x) ==
    /\ ~cmd'.list
    /\ cmd'.key \in {"repositories." \o x, "repos." \o x, "repo." \o x}

\* the step leaves every repository but x, and the settings, as they were
OnlyRepository(x, value) ==
    content' = [content EXCEPT !.repositories = [@ EXCEPT ![x] = value]]

\* C19: a command on repositories.X (or repo.X, repos.X) with one value
\* stores the value as the url of X and returns 0; with --unset it returns 0
\* and removes X when X is defined and raises ValueError, the configuration
\* untouched, when it is not; so an --unset of X after a successful --unset
\* of X with no add of X in between raises ValueError, and so does reading
\* repositories.X then.
C19_RepositoryCommands ==
    [][\A x \in RepositoryNames :
           /\ (OnRepository(x) /\ ~cmd'.unset /\ Len(cmd'.values) = 1)
                  => /\ cmd'.outcome = "0"
                     /\ OnlyRepository(x, cmd'.values[1])
           /\ (OnRepository(x) /\ cmd'.unset /\ cmd'.values = <<>>)
                  => IF content.repositories[x] # PyNone
                     THEN /\ cmd'.outcome = "0"
                          /\ OnlyRepository(x, PyNone)
                     ELSE /\ cmd'.outcome = "ValueError"
                          /\ content' = content
           /\ (OnRepository(x) /\ cmd'.values = <<>> /\ x \in removed)
                  => /\ cmd'.outcome = "ValueError"
                     /\ content' = content]_vars

\* foo was unset by its alias, then unset again, which failed; bar stays
C19_Witness ==
    /\ cmd = Command("repo.foo", <<>>, TRUE, FALSE, "ValueError")
    /\ "foo" \in removed
    /\ content.repositories["foo"] = PyNone
    /\ content.repositories["bar"] = "https://bar.com/simple/"

\* the step's command is on the setting k
OnSetting(k) == ~cmd'.list /\ cmd'.key = k

OnlySetting(k, value) ==
    content' = [content EXCEPT !.settings = [@ EXCEPT ![k] = value]]

\* C20: on settings.virtualenvs.create and settings.pypi.fallback one value
\* among 'true', 'false', '1', '0' is stored as True for 'true' and '1' and
\* as False for 'false' and '0'; more than one value, or another value,
\* raises RuntimeError and stores nothing; --unset removes the key and
\* returns 0, set or not; and nothing else stores a value under the key.
C20_BooleanSettings ==
    [][\A k \in {"settings.virtualenvs.create", "settings.pypi.fallback"} :
           /\ (/\ OnSetting(k) /\ ~cmd'.unset /\ Len(cmd'.values) = 1
               /\ cmd'.values[1] \in {"true", "1"})
                  => cmd'.outcome = "0" /\ OnlySetting(k, "True")
           /\ (/\ OnSetting(k) /\ ~cmd'.unset /\ Len(cmd'.values) = 1
               /\ cmd'.values[1] \in {"false", "0"})
                  => cmd'.outcome = "0" /\ OnlySetting(k, "False")
           /\ (/\ OnSetting(k)
               /\ \/ Len(cmd'.values) > 1
                  \/ /\ Len(cmd'.values) = 1
                     /\ cmd'.values[1] \notin {"true", "false", "1", "0"})
                  => cmd'.outcome = "RuntimeError" /\ content' = content
           /\ (OnSetting(k) /\ cmd'.unset /\ cmd'.values = <<>>)
                  => cmd'.outcome = "0" /\ OnlySetting(k, PyNone)
           /\ content'.settings[k] \notin {content.settings[k], PyNone}
                  => /\ OnSetting(k) /\ ~cmd'.unset /\ Len(cmd'.values) = 1
                     /\ cmd'.values[1] \in {"true", "false", "1", "0"}]_vars

\* '0' stored False under one key, '1' stored True under the other, which
\* --unset then removed, and a second --unset returned 0 as well
C20_Witness ==
    /\ cmd = Command("settings.pypi.fallback", <<>>, TRUE, FALSE, "0")
    /\ content.settings["settings.pypi.fallback"] = PyNone
    /\ content.settings["settings.virtualenvs.create"] = "False"

\* the step's command raised
Raises == cmd'.outcome \in {"ValueError", "RuntimeError"}

\* the step's command is --list, has no key, or has a key alone
Reads ==
    \/ cmd'.list
    \/ cmd'.key = ""
    \/ cmd'.values = <<>> /\ ~cmd'.unset

\* C25: a command that raises leaves config.toml and auth.toml as they
\* were, and so does a command with --list, without a key, or with a key
\* but neither a value nor --unset.
C25_Frame ==
    [][(Raises \/ Reads) => (content' = content /\ auth' = auth)]_vars

\* a command with three values on http-basic.foo raised, with a repository,
\* a setting and a login stored before
C25_Witness ==
    /\ cmd = Command("http-basic.foo", <<"user", "pass", "x">>, FALSE, FALSE,
                     "ValueError")
    /\ auth["foo"] = <<"user", "secret">>
    /\ content.repositories["foo"] = "https://foo.org/"
    /\ content.settings["settings.pypi.fallback"] = "True"

(***************************************************************************)
(* Properties of the check command (SpecChk).                              *)
(***************************************************************************)
AllSet == \E i \in 1..Len(printed) : printed[i].text = "All set!"

\* C21: the check command returns 0 and prints "All set!" exactly when the
\* result has no error and no warning; otherwise it returns 1, does not
\* print "All set!", and prints one line for each error and then one line
\* for each warning, in their order.
C21_CheckExit ==
    returned # "" =>
        LET clean == check_result.errors = <<>> /\ check_result.warnings = <<>>
            e == Len(check_result.errors)
            w == Len(check_result.warnings)
        IN  /\ returned \in {"0", "1"}
            /\ returned = "0" <=> clean
            /\ AllSet <=> clean
            /\ ~clean =>
                   /\ Len(printed) = e + w
                   /\ \A i \in 1..e :
                          printed[i].text = "<error>Error: "
                              \o check_result.errors[i] \o "</error>"
                   /\ \A i \in 1..w :
                          printed[e + i].text = "<warning>Warning: "
                              \o check_result.warnings[i] \o "</warning>"

\* a result with warnings alone made the command return 1
C21_Witness ==
    /\ returned = "1"
    /\ check_result.errors = <<>>
    /\ Len(check_result.warnings) = 2
    /\ Len(printed) = 2

====
